---- MODULE Spec2Model ----
(***************************************************************************)
(* State-machine model of the notebook                                     *)
(*   src/python/07-audio-classification-n-generation/                      *)
(*       01-audio-classification.ipynb                                     *)
(* The kernel's globals are the variables; every notebook cell, and every  *)
(* step of the train / val functions, is an action.  Real-valued losses    *)
(* are exact rationals <<numerator, denominator>>.  A model's parameters   *)
(* are abstracted to a version number that every optimizer step advances,  *)
(* the batch-norm running statistics to the number of training-mode        *)
(* forward passes.  Dataset indices are 0-based as in the code, sequences  *)
(* are 1-based as in TLA+.                                                 *)
(***************************************************************************)
EXTENDS Integers, Sequences, FiniteSets, TLC

(***************************************************************************)
(* Bounds of the model and program constants.                              *)
(***************************************************************************)
\* largest dataset (len(dataset)) considered
MaxDatasetSize == 7
\* samples per batch; the notebook sets 256, scaled down so that epochs of
\* several batches, and a smaller last batch, occur on small datasets
batch_size == 2
\* len(dataset.classes); about 35 in the notebook's dataset
NumClasses == 2
\* longest waveform (in samples) of a dataset item or of a collate_fn input
MaxLen == 3
\* longest batch handed to collate_fn on its own
MaxBatch == 2
\* a batch loss at which the epoch loss exceeds the initial best_loss
BigLoss == 40000
\* largest number of times the split cell is run in a row
MaxSplitRuns == 2
\* largest dataset whose validation pass is followed on its own
MaxValDatasetSize == 12
\* clips of up to this many half seconds are found at test_wav
MaxHalfSeconds == 3
\* and of up to this many frames around a whole number of half seconds
MaxExtraFrames == 2
num_epochs == 2
log_interval == 20
new_sample_rate == 8000
\* val_size = 0.3 as the fraction val_size_num / val_size_den
val_size_num == 3
val_size_den == 10
\* best_loss = 10000 before the first epoch
initial_best_loss == 10000
\* min_duration = 1.0 seconds
min_duration == 1

Range(s) == {s[k] : k \in 1..Len(s)}

RECURSIVE SumSeq(_)
SumSeq(s) == IF Len(s) = 0 THEN 0 ELSE s[1] + SumSeq(Tail(s))

RECURSIVE Concat(_)
\* the concatenation of a sequence of sequences
Concat(ss) == IF Len(ss) = 0 THEN <<>> ELSE ss[1] \o Concat(Tail(ss))

(***************************************************************************)
(* Rationals: Python floats holding sums and quotients of batch losses.    *)
(***************************************************************************)
RatLess(a, b) == a[1] * b[2] < b[1] * a[2]

RatEq(a, b) == a[1] * b[2] = b[1] * a[2]

\* x / n for a sum x of batch losses
Quotient(x, n) == <<x, n>>

(***************************************************************************)
(* Tensors are nested sequences.  A waveform is [channel][time].           *)
(***************************************************************************)
RECURSIVE Float32Ulp(_)
Float32Ulp(x) == IF x < 16777216 THEN 1 ELSE 2 * Float32Ulp(x \div 2)

\* torch.Tensor(...) of an integer array stores float32: round to nearest,
\* ties to even, at the spacing of x's binade
Float32(x) ==
  LET s == Float32Ulp(x)
      q == x \div s
      r == x % s
  IN  IF 2 * r < s THEN q * s
      ELSE IF 2 * r > s THEN (q + 1) * s
      ELSE IF q % 2 = 0 THEN q * s ELSE (q + 1) * s

\* Tensor.t() of a 2-D tensor
t(m) == [j \in 1..Len(m[1]) |-> [c \in 1..Len(m) |-> m[c][j]]]

\* a padding that puts the added samples in front of the sequence
rnn_pad_sequence_left(sequences, padding_value) ==
  LET lens == {Len(sequences[b]) : b \in 1..Len(sequences)}
      max_len == CHOOSE l \in lens : \A k \in lens : k <= l
      channels == Len(sequences[1][1])
  IN  [b \in 1..Len(sequences) |->
        [j \in 1..max_len |->
          IF j > max_len - Len(sequences[b])
          THEN sequences[b][j - (max_len - Len(sequences[b]))]
          ELSE [c \in 1..channels |-> padding_value]]]

\* torch.nn.utils.rnn.pad_sequence(sequences, batch_first=True, padding_value)
\* of [time][channel] tensors: [batch][time][channel]
rnn_pad_sequence(sequences, padding_value) ==
  LET lens == {Len(sequences[b]) : b \in 1..Len(sequences)}
      max_len == CHOOSE l \in lens : \A k \in lens : k <= l
      channels == Len(sequences[1][1])
  IN  [b \in 1..Len(sequences) |->
        [j \in 1..max_len |->
          IF j <= Len(sequences[b]) THEN sequences[b][j]
          ELSE [c \in 1..channels |-> padding_value]]]

\* Tensor.permute(0, 2, 1)
permute021(x) ==
  [b \in 1..Len(x) |->
    [c \in 1..Len(x[b][1]) |-> [j \in 1..Len(x[b]) |-> x[b][j][c]]]]

pad_sequence(batch) ==
  permute021(rnn_pad_sequence([k \in 1..Len(batch) |-> t(batch[k])], 0))

\* collate_fn of a non-empty list of <<waveform, label>> pairs:
\* <<tensors, targets>>
collate_fn(batch) ==
  LET tensors == [k \in 1..Len(batch) |-> batch[k][1]]
      targets == [k \in 1..Len(batch) |-> batch[k][2]]
  IN  <<pad_sequence(tensors), [k \in 1..Len(targets) |-> Float32(targets[k])]>>

\* collate_fn of mono waveforms given by clip and frames: the padded tensor
\* is given by its shape [batch][1][longest] and by the clip that each of its
\* rows holds in front of its zeros
collate_fn_clips(batch) ==
  LET tensors == [k \in 1..Len(batch) |-> batch[k][1]]
      targets == [k \in 1..Len(batch) |-> batch[k][2]]
      lens == { tensors[k].frames : k \in 1..Len(tensors) }
      longest == CHOOSE l \in lens : \A k \in lens : k <= l
  IN  << [shape |-> << Len(batch), 1, longest >>, rows |-> tensors],
         [k \in 1..Len(targets) |-> Float32(targets[k])] >>

(***************************************************************************)
(* The dataset: AudioFolder(dataroot, transform), an indexed collection of *)
(* (waveform, label) pairs with a list of class names.                     *)
(***************************************************************************)
AllClasses == <<"backward", "bed", "bird", "cat", "dog", "down">>

\* dataset.classes
classes == SubSeq(AllClasses, 1, NumClasses)

\* what the files under dataroot may be: clips of a second or a little more
\* at new_sample_rate, clips of a few frames, or the two in turn
DatasetKinds == { "long", "short", "mixed" }

\* waveform.shape[-1] of item i
ItemFrames(kind, i) ==
  IF kind = "short" \/ (kind = "mixed" /\ i % 2 = 1)
  THEN 1 + (i % MaxLen)
  ELSE new_sample_rate + (i % MaxLen)

\* the (waveform, label) pairs of a dataset of n items; a mono waveform is
\* given by the item it comes from and its number of frames
DatasetItems(kind, n) ==
  [k \in 1..n |->
    << [clip |-> k - 1, frames |-> ItemFrames(kind, k - 1)], (k - 1) % NumClasses >>]

(***************************************************************************)
(* train_test_split(idx, test_size=val_size, random_state=42)              *)
(***************************************************************************)
\* numpy.random.RandomState(42).permutation(n), n = 1..14
Permutation42 ==
  << <<0>>,
     <<1, 0>>,
     <<0, 1, 2>>,
     <<1, 3, 0, 2>>,
     <<1, 4, 2, 0, 3>>,
     <<0, 1, 5, 2, 4, 3>>,
     <<0, 1, 5, 2, 4, 3, 6>>,
     <<1, 5, 0, 7, 2, 4, 3, 6>>,
     <<7, 1, 5, 0, 8, 2, 4, 3, 6>>,
     <<8, 1, 5, 0, 7, 2, 9, 4, 3, 6>>,
     <<5, 0, 9, 10, 2, 1, 8, 4, 7, 3, 6>>,
     <<10, 9, 0, 8, 5, 2, 1, 11, 4, 7, 3, 6>>,
     <<11, 9, 0, 8, 5, 2, 1, 12, 4, 7, 10, 3, 6>>,
     <<9, 11, 0, 12, 5, 8, 2, 1, 13, 4, 7, 10, 3, 6>> >>

\* n_test = ceil(test_size * n_samples)
NTest(n) == (val_size_num * n + val_size_den - 1) \div val_size_den

\* a sequence without its k-th element
Without(s, k) == SubSeq(s, 1, k - 1) \o SubSeq(s, k + 1, Len(s))

\* every order of the elements of a sequence
RECURSIVE Orders(_)
Orders(s) ==
  IF s = <<>> THEN { <<>> }
  ELSE UNION { { <<s[k]>> \o rest : rest \in Orders(Without(s, k)) } :
               k \in 1..Len(s) }

\* the permutations a split without random_state may draw: it shuffles with
\* numpy's global generator, whose state differs from run to run
SplitPermutationsUnseeded(n) == Orders([k \in 1..n |-> k - 1])

\* the permutations a split with random_state=42 may draw for n indices:
\* every call seeds a generator of its own, which draws the same one
SplitPermutations(n) == { Permutation42[n] }

\* the two lists a call may return, or a ValueError when the train set would
\* be empty
train_test_split(idx) ==
  LET n == Len(idx)
      n_test == NTest(n)
      n_train == n - n_test
  IN  IF n_train = 0 THEN { [error |-> TRUE, train |-> <<>>, test |-> <<>>] }
      ELSE { [error |-> FALSE,
              train |-> [k \in 1..n_train |-> idx[permutation[n_test + k] + 1]],
              test |-> [k \in 1..n_test |-> idx[permutation[k] + 1]]] :
             permutation \in SplitPermutations(n) }

(***************************************************************************)
(* DataLoader(subset, batch_size, collate_fn, shuffle)                     *)
(***************************************************************************)
\* len(loader) for a subset of n samples (drop_last is False)
LoaderLen(n) == (n + batch_size - 1) \div batch_size

\* a batch sampler that drops a last batch shorter than batch_size
IndexBatchesDropLast(order) ==
  [b \in 1..(Len(order) \div batch_size) |->
    SubSeq(order, (b - 1) * batch_size + 1, b * batch_size)]

\* BatchSampler: the sampler's order cut into runs of batch_size
IndexBatches(order) ==
  [b \in 1..LoaderLen(Len(order)) |->
    SubSeq(order, (b - 1) * batch_size + 1,
           IF b * batch_size <= Len(order) THEN b * batch_size ELSE Len(order))]

\* orders a RandomSampler may draw (shuffle=True): every permutation
RECURSIVE RandomSamplerOrders(_)
RandomSamplerOrders(indices) ==
  IF indices = <<>> THEN { <<>> }
  ELSE UNION { { <<indices[k]>> \o rest : rest \in RandomSamplerOrders(Without(indices, k)) } :
               k \in 1..Len(indices) }

\* SequentialSampler (shuffle=False)
SequentialSamplerOrder(indices) == indices

(***************************************************************************)
(* The model M5 and the loss.                                              *)
(***************************************************************************)
\* rows of n_output scores a forward pass may return for one sample: a tie
\* of all classes, and the last class ahead
OutputRows ==
  { [c \in 1..NumClasses |-> 0],
    [c \in 1..NumClasses |-> IF c = NumClasses THEN 0 ELSE 0 - 1] }

\* model(data) for a batch of n samples: a tensor [batch][1][n_output]
RECURSIVE ForwardOutputs(_)
ForwardOutputs(n) ==
  IF n = 0 THEN { <<>> }
  ELSE { Append(rest, <<row>>) : rest \in ForwardOutputs(n - 1), row \in OutputRows }

\* Tensor.argmax(dim=-1) of one row: the 0-based index of the first maximum
ArgMax(row) ==
  (CHOOSE c \in 1..Len(row) :
     /\ \A d \in 1..Len(row) : row[d] <= row[c]
     /\ \A d \in 1..(c - 1) : row[d] < row[c]) - 1

\* get_likely_index of [batch][1][n_output]: [batch][1]
get_likely_index(tensor) ==
  [b \in 1..Len(tensor) |-> [r \in 1..Len(tensor[b]) |-> ArgMax(tensor[b][r])]]

\* number_of_correct: pred.squeeze() is a scalar for a batch of one and is
\* broadcast against target, else it is [batch]
number_of_correct(pred, target) ==
  LET squeezed == IF Len(pred) = 1 THEN pred[1][1]
                  ELSE [b \in 1..Len(pred) |-> pred[b][1]]
      eq == IF Len(pred) = 1
            THEN [b \in 1..Len(target) |-> squeezed = target[b]]
            ELSE [b \in 1..Len(target) |-> squeezed[b] = target[b]]
  IN  Cardinality({b \in 1..Len(eq) : eq[b]})

\* the shape of output.squeeze() for output of shape <<batch, 1, n_output>>
SqueezedShape(shape) == SelectSeq(shape, LAMBDA d : d # 1)

\* criterion(output.squeeze(), target) accepts a [batch][class] input with a
\* [batch] target; the squeezed output of a one-sample batch is [class] and
\* CrossEntropyLoss raises on its size mismatch with the [1] target
CriterionAccepts(output_shape, target) ==
  LET shape == SqueezedShape(output_shape)
  IN  Len(shape) = 2 /\ shape[1] = Len(target)

\* batch losses (loss.item()) observed in train and in val
TrainLossValues == {1, 2}

ValLossValues == {1, 2, BigLoss}

(***************************************************************************)
(* Audio clips of the inference cells.                                     *)
(***************************************************************************)
RECURSIVE GCD(_, _)
GCD(a, b) == IF b = 0 THEN a ELSE GCD(b, a % b)

\* frames of torchaudio.transforms.Resample(orig_freq, new_freq)(waveform)
ResampledFrames(frames, orig_freq, new_freq) ==
  IF orig_freq = new_freq THEN frames
  ELSE LET g == GCD(orig_freq, new_freq)
           o == orig_freq \div g
           n == new_freq \div g
       IN  (n * frames + o - 1) \div o

\* the sample clip of the metadata cell: one second at 16 kHz
SampleClip == [clip |-> "sample", frames |-> 16000, rate |-> 16000]

\* what may be found at test_wav when the clip cell runs
TestFiles ==
  { [exists |-> FALSE, clip |-> "missing", frames |-> 0, rate |-> 0],
    [exists |-> TRUE, clip |-> "short", frames |-> 7999, rate |-> 8000],
    [exists |-> TRUE, clip |-> "second8k", frames |-> 8000, rate |-> 8000],
    [exists |-> TRUE, clip |-> "second16k", frames |-> 16000, rate |-> 16000] }

\* sample rates of the files found at test_wav
SampleRates == { new_sample_rate, 11025, 44100 }

\* mono clips of about one to MaxHalfSeconds half seconds at these rates: a
\* frame less than a whole number of half seconds, exactly that, or more
RecordedFiles ==
  { [exists |-> TRUE, clip |-> "recorded", frames |-> ((k * rate) \div 2) + d - 1,
     rate |-> rate] :
      rate \in SampleRates, k \in 1..MaxHalfSeconds, d \in 0..MaxExtraFrames }

\* transform(waveform) at the given sample rate
Resample(wave, rate) ==
  [clip |-> wave.clip, frames |-> ResampledFrames(wave.frames, rate, new_sample_rate)]

\* waveform.size(1) / sample_rate < 0.5: a check that lets half a second pass
TooShortHalf(frames, rate) == 2 * frames < min_duration * rate

\* waveform.size(1) / sample_rate < min_duration
TooShort(frames, rate) == frames < min_duration * rate

(***************************************************************************)
(* The time dimension of x through M5.forward.                             *)
(***************************************************************************)
\* the layers of M5 that change x.shape[-1], in the order forward applies them
M5Layers ==
  << [layer |-> "conv1", kernel_size |-> 80, stride |-> 16],
     [layer |-> "pool1", kernel_size |-> 4, stride |-> 4],
     [layer |-> "conv2", kernel_size |-> 3, stride |-> 1],
     [layer |-> "pool2", kernel_size |-> 4, stride |-> 4],
     [layer |-> "conv3", kernel_size |-> 3, stride |-> 1],
     [layer |-> "pool3", kernel_size |-> 4, stride |-> 4],
     [layer |-> "conv4", kernel_size |-> 3, stride |-> 1],
     [layer |-> "pool4", kernel_size |-> 4, stride |-> 4] >>

\* L_out of Conv1d and of MaxPool1d without padding or dilation, floor mode;
\* 0 stands for the RuntimeError of an input shorter than the kernel
LayerOut(length, layer) ==
  IF length < layer.kernel_size THEN 0
  ELSE ((length - layer.kernel_size) \div layer.stride) + 1

\* x.shape[-1] after each of the layers from the i-th on, up to the layer
\* that raises
RECURSIVE TimeDims(_, _)
TimeDims(length, i) ==
  IF i > Len(M5Layers) THEN <<>>
  ELSE LET out == LayerOut(length, M5Layers[i])
       IN  IF out = 0 THEN << 0 >> ELSE << out >> \o TimeDims(out, i + 1)

\* no forward pass has run
NoForward == [dims |-> <<>>, shape |-> <<>>]

\* M5.forward on [batch][1][frames]: avg_pool1d over the whole of what pool4
\* left, permute, fc1 and log_softmax give [batch][1][n_output]
M5Forward(batch, frames) ==
  LET dims == TimeDims(frames, 1)
  IN  IF dims[Len(dims)] = 0
      THEN [dims |-> dims, shape |-> <<>>]
      ELSE [dims |-> dims, shape |-> << batch, 1, NumClasses >>]

(***************************************************************************)
(* State.                                                                  *)
(***************************************************************************)
VARIABLES
  dataset,         \* the (waveform, label) pairs of the AudioFolder
  dataset_size,    \* len(dataset)
  train_indices,   \* list of dataset indices, "undefined" before the split
  val_indices,
  pc,              \* the cell or the statement to run next
  epoch,
  model,           \* [params, bn, training] of the global model
  grad,            \* the parameters' .grad: <<>> (None) or the batch it came from
  no_grad,         \* inside torch.no_grad()
  batches,         \* the running loader iteration: its index batches
  batch_idx,       \* batches already consumed in the running iteration
  data,            \* the batch at hand
  target,
  output,
  loss,
  train_loss,
  val_loss,
  correct,
  train_losses,
  val_losses,
  best_loss,
  checkpoint,      \* the file at save_path: whether it exists, and its state_dict
  waveform,        \* globals of the clip cells
  sample_rate,
  transformed,
  input_data,      \* <<>> while the name is not defined
  stdout,          \* what the statement or cell that ran last printed
  split_runs,      \* history: runs of the split cell, and the first split
  first_split,
  trace,           \* history: steps taken on the training batch at hand
  batch_losses,    \* history: batch losses of the running train or val call
  hits,            \* history: validation samples predicted right in this call
  prev_order,      \* history: the previous epoch's training order
  emitted,         \* history: index batches the running iteration has emitted
  train_entry,     \* history: parameters when train was entered
  train_exit,      \* history: state_dict when train returned
  val_entry,       \* history: state_dict and grad when val was entered
  epoch_states,    \* history: state_dict at the end of every completed epoch
  c_batch,         \* a batch handed to collate_fn on its own
  c_out,
  x_time           \* M5.forward: x.shape[-1] after every layer so far, and the
                   \* shape of what it returned

loop_vars ==
  << epoch, model, grad, no_grad, batches, batch_idx, data, target, output, loss,
     train_loss, val_loss, correct, train_losses, val_losses, best_loss,
     checkpoint, trace, batch_losses, hits, prev_order, emitted, train_entry,
     train_exit, val_entry, epoch_states >>

split_vars ==
  << dataset, dataset_size, train_indices, val_indices, split_runs, first_split >>

\* dataset[i]
DatasetItem(i) == dataset[i + 1]

\* the batch the loader emits for a list of dataset indices
FetchBatch(index_batch) ==
  collate_fn_clips([k \in 1..Len(index_batch) |-> DatasetItem(index_batch[k])])

clip_vars == << waveform, sample_rate, transformed, input_data >>

collate_vars == << c_batch, c_out >>

vars == << split_vars, pc, loop_vars, clip_vars, stdout, collate_vars, x_time >>

\* model.state_dict(): parameters and batch-norm buffers
StateDict(m) == [params |-> m.params, bn |-> m.bn]

\* torch.save(state_dict, save_path) and the absence of the file
SavedFile(state_dict) ==
  [exists |-> TRUE, params |-> state_dict.params, bn |-> state_dict.bn]

NoFile == [exists |-> FALSE, params |-> 0, bn |-> 0]

\* M5(...): freshly initialised parameters, training mode
NewM5 == [params |-> 0, bn |-> 0, training |-> TRUE]

\* the kernel after the cells up to dataset = AudioFolder(...) have run
InitKernel(n) ==
  /\ dataset_size = n
  /\ train_indices = "undefined"
  /\ val_indices = "undefined"
  /\ epoch = 0
  /\ model = "undefined"
  /\ grad = <<>>
  /\ no_grad = FALSE
  /\ batches = <<>>
  /\ batch_idx = 0
  /\ data = "undefined"
  /\ target = "undefined"
  /\ output = "undefined"
  /\ loss = "undefined"
  /\ train_loss = "undefined"
  /\ val_loss = "undefined"
  /\ correct = "undefined"
  /\ train_losses = "undefined"
  /\ val_losses = "undefined"
  /\ best_loss = "undefined"
  /\ checkpoint = NoFile
  /\ waveform = [clip |-> SampleClip.clip, frames |-> SampleClip.frames]
  /\ sample_rate = SampleClip.rate
  /\ transformed = Resample([clip |-> SampleClip.clip, frames |-> SampleClip.frames],
                            SampleClip.rate)
  /\ input_data = <<>>
  /\ stdout = [kind |-> ""]
  /\ split_runs = 0
  /\ first_split = <<>>
  /\ trace = <<>>
  /\ batch_losses = <<>>
  /\ hits = {}
  /\ prev_order = <<>>
  /\ emitted = <<>>
  /\ train_entry = 0
  /\ train_exit = <<>>
  /\ val_entry = <<>>
  /\ epoch_states = <<>>

Init ==
  /\ \E n \in 1..MaxDatasetSize, kind \in DatasetKinds :
       InitKernel(n) /\ dataset = DatasetItems(kind, n)
  /\ pc = "cell_split"
  /\ c_batch = <<>>
  /\ c_out = <<>>
  /\ x_time = NoForward

(***************************************************************************)
(* The split cell and the model cell.                                      *)
(***************************************************************************)
\* idx = list(range(dataset_size)); train_test_split; Subset; DataLoader
SplitCell ==
  /\ \/ pc = "cell_split"
     \/ pc = "cell_model" /\ split_runs < MaxSplitRuns
  /\ \E split \in train_test_split([k \in 1..dataset_size |-> k - 1]) :
         IF split.error
         THEN /\ pc' = "split_error"
              /\ stdout' = [kind |-> "ValueError"]
              /\ UNCHANGED << train_indices, val_indices, split_runs,
                              first_split >>
         ELSE /\ train_indices' = split.train
              /\ val_indices' = split.test
              /\ split_runs' = split_runs + 1
              /\ first_split' = IF split_runs = 0
                                 THEN <<split.train, split.test>>
                                 ELSE first_split
              /\ stdout' = [kind |-> ""]
              /\ pc' = "cell_inspect"
  /\ UNCHANGED << dataset, dataset_size, loop_vars, clip_vars, collate_vars, x_time >>

\* Tensor.squeeze() of a shape
Squeeze(shape) == SelectSeq(shape, LAMBDA d : d # 1)

\* data_batch, label_batch = next(iter(train_loader)), which raises on a
\* loader without batches; the shapes of the batch and of its first waveform
\* and the class of its first label are printed
InspectCell ==
  /\ pc = "cell_inspect"
  /\ \E order \in RandomSamplerOrders(train_indices) :
       IF IndexBatches(order) = <<>>
       THEN /\ stdout' = [kind |-> "StopIteration"]
            /\ pc' = "raised"
       ELSE LET fetched == FetchBatch(IndexBatches(order)[1])
            IN  /\ stdout' = [kind |-> "Data batch shape:",
                              data_batch |-> fetched[1].shape,
                              sample_waveform |-> Squeeze(Tail(fetched[1].shape)),
                              sample_class |-> classes[fetched[2][1] + 1]]
                /\ pc' = "cell_model"
  /\ UNCHANGED << split_vars, loop_vars, clip_vars, collate_vars, x_time >>

\* model = M5(...); optimizer = optim.Adam(model.parameters(), ...)
ModelCell ==
  /\ pc = "cell_model"
  /\ model' = NewM5
  /\ grad' = <<>>
  /\ split_runs' = 0
  /\ first_split' = <<>>
  /\ stdout' = [kind |-> "M5"]
  /\ pc' = "cell_loop"
  /\ UNCHANGED << dataset, dataset_size, train_indices, val_indices, epoch, no_grad,
                  batches, batch_idx, data, target, output, loss, train_loss,
                  val_loss, correct, train_losses, val_losses, best_loss,
                  checkpoint, trace, batch_losses, hits, prev_order, emitted,
                  train_entry, train_exit, val_entry, epoch_states,
                  clip_vars, collate_vars, x_time >>

(***************************************************************************)
(* The training-loop cell.                                                 *)
(***************************************************************************)
\* train_losses = []; val_losses = []; best_loss = 10000; epoch = 1
TrainingLoopStart ==
  /\ pc = "cell_loop"
  /\ train_losses' = <<>>
  /\ val_losses' = <<>>
  /\ best_loss' = <<initial_best_loss, 1>>
  /\ epoch' = 1
  /\ stdout' = [kind |-> ""]
  /\ pc' = "train_begin"
  /\ UNCHANGED << split_vars, model, grad, no_grad, batches, batch_idx, data,
                  target, output, loss, train_loss, val_loss, correct,
                  checkpoint, trace, batch_losses, hits, prev_order, emitted,
                  train_entry, train_exit, val_entry, epoch_states,
                  clip_vars, collate_vars, x_time >>

\* train: model.train(); train_loss = 0.0; iter(train_loader) draws an order
TrainBegin ==
  /\ pc = "train_begin"
  /\ model' = [model EXCEPT !.training = TRUE]
  /\ train_loss' = 0
  /\ \E order \in RandomSamplerOrders(train_indices) :
       batches' = IndexBatches(order)
  /\ batch_idx' = 0
  /\ batch_losses' = <<>>
  /\ pc' = "train"
  /\ emitted' = <<>>
  /\ train_entry' = model.params
  /\ UNCHANGED << split_vars, epoch, grad, no_grad, data, target, output,
                  loss, val_loss, correct, train_losses, val_losses,
                  best_loss, checkpoint, trace, hits, prev_order, train_exit,
                  val_entry, epoch_states, clip_vars, stdout, collate_vars, x_time >>

\* the forward pass of a model in training mode updates the batch-norm
\* running statistics
\* running statistics of every batch-norm layer it gets to: none when conv1
\* raises
AfterForward(m, forward) ==
  IF m.training /\ Len(forward.dims) > 1 THEN [m EXCEPT !.bn = @ + 1] ELSE m

\* for batch_idx, (data, target) in enumerate(train_loader): output = model(data)
TrainForward ==
  /\ pc = "train"
  /\ batch_idx < Len(batches)
  /\ LET fetched == FetchBatch(batches[batch_idx + 1])
     IN  /\ data' = fetched[1]
         /\ target' = fetched[2]
         /\ LET forward == M5Forward(fetched[1].shape[1], fetched[1].shape[3])
            IN  /\ x_time' = forward
                /\ model' = AfterForward(model, forward)
                /\ IF forward.shape = <<>>
                   THEN /\ stdout' = [kind |-> "RuntimeError"]
                        /\ pc' = "raised"
                        /\ UNCHANGED output
                   ELSE /\ \E out \in ForwardOutputs(forward.shape[1]) : output' = out
                        /\ pc' = "t_loss"
                        /\ UNCHANGED stdout
  /\ trace' = <<"forward">>
  /\ prev_order' = <<>>
  /\ emitted' = Append(emitted, batches[batch_idx + 1])
  /\ UNCHANGED << split_vars, epoch, grad, no_grad, batches, batch_idx, loss,
                  train_loss, val_loss, correct, train_losses, val_losses,
                  best_loss, checkpoint, batch_losses, hits, train_entry,
                  train_exit, val_entry, epoch_states, clip_vars,
                  collate_vars >>

OutputShape(out) == << Len(out), Len(out[1]), Len(out[1][1]) >>

\* loss = criterion(output.squeeze(), target); output is not read again
TrainLoss ==
  /\ pc = "t_loss"
  /\ IF CriterionAccepts(OutputShape(output), target)
     THEN /\ \E l \in TrainLossValues :
               loss' = [value |-> l, graph |-> <<epoch, batch_idx>>]
          /\ trace' = Append(trace, "loss")
          /\ pc' = "t_zero_grad"
          /\ UNCHANGED stdout
     ELSE /\ stdout' = [kind |-> "RuntimeError"]
          /\ pc' = "raised"
          /\ UNCHANGED << loss, trace >>
  /\ output' = "undefined"
  /\ UNCHANGED << split_vars, epoch, model, grad, no_grad, batches,
                  batch_idx, data, target, train_loss, val_loss, correct,
                  train_losses, val_losses, best_loss, checkpoint,
                  batch_losses, hits, prev_order, emitted, train_entry,
                  train_exit, val_entry, epoch_states, clip_vars,
                  collate_vars, x_time >>

\* loss.backward() and then optimizer.zero_grad(): the gradients are cleared
\* before the optimizer reads them
TrainBackwardThenZeroGrad ==
  /\ pc = "t_zero_grad"
  /\ grad' = <<>>
  /\ trace' = trace \o <<"backward", "zero_grad">>
  /\ pc' = "t_step"
  /\ UNCHANGED << split_vars, epoch, model, no_grad, batches, batch_idx, data,
                  target, output, loss, train_loss, val_loss, correct,
                  train_losses, val_losses, best_loss, checkpoint,
                  batch_losses, hits, prev_order, emitted, train_entry,
                  train_exit, val_entry, epoch_states, clip_vars, stdout,
                  collate_vars, x_time >>

\* optimizer.zero_grad()
TrainZeroGrad ==
  /\ pc = "t_zero_grad"
  /\ grad' = <<>>
  /\ trace' = Append(trace, "zero_grad")
  /\ pc' = "t_backward"
  /\ UNCHANGED << split_vars, epoch, model, no_grad, batches, batch_idx,
                  data, target, output, loss, train_loss, val_loss, correct,
                  train_losses, val_losses, best_loss, checkpoint,
                  batch_losses, hits, prev_order, emitted, train_entry,
                  train_exit, val_entry, epoch_states, clip_vars, stdout,
                  collate_vars, x_time >>

\* loss.backward(): the gradients of this batch's loss
TrainBackward ==
  /\ pc = "t_backward"
  /\ grad' = loss.graph
  /\ trace' = Append(trace, "backward")
  /\ pc' = "t_step"
  /\ UNCHANGED << split_vars, epoch, model, no_grad, batches, batch_idx,
                  data, target, output, loss, train_loss, val_loss, correct,
                  train_losses, val_losses, best_loss, checkpoint,
                  batch_losses, hits, prev_order, emitted, train_entry,
                  train_exit, val_entry, epoch_states, clip_vars, stdout,
                  collate_vars, x_time >>

\* optimizer.step(): Adam leaves parameters without a gradient alone
OptimizerStep(m, g) == IF g = <<>> THEN m ELSE [m EXCEPT !.params = @ + 1]

TrainStep ==
  /\ pc = "t_step"
  /\ model' = OptimizerStep(model, grad)
  /\ trace' = Append(trace, "step")
  /\ pc' = "t_accum"
  /\ UNCHANGED << split_vars, epoch, grad, no_grad, batches, batch_idx, data,
                  target, output, loss, train_loss, val_loss, correct,
                  train_losses, val_losses, best_loss, checkpoint,
                  batch_losses, hits, prev_order, emitted, train_entry,
                  train_exit, val_entry, epoch_states, clip_vars, stdout,
                  collate_vars, x_time >>

\* train_loss += loss.item(); the loop moves to the next batch
TrainAccumulate ==
  /\ pc = "t_accum"
  /\ train_loss' = train_loss + loss.value
  /\ batch_losses' = Append(batch_losses, loss.value)
  /\ stdout' = IF batch_idx % log_interval = 0
               THEN [kind |-> "Train Epoch:", epoch |-> epoch,
                     seen |-> batch_idx * data.shape[1],
                     total |-> Len(train_indices),
                     batch_idx |-> batch_idx,
                     batches |-> LoaderLen(Len(train_indices)),
                     loss |-> loss.value]
               ELSE stdout
  /\ batch_idx' = batch_idx + 1
  /\ pc' = "train"
  /\ UNCHANGED << split_vars, epoch, model, grad, no_grad, batches, data,
                  target, output, loss, val_loss, correct, train_losses,
                  val_losses, best_loss, checkpoint, trace, hits, prev_order,
                  emitted, train_entry, train_exit, val_entry, epoch_states,
                  clip_vars, collate_vars, x_time >>

\* train_loss = train_loss / len(train_loader); losses.append(train_loss);
\* train returns and its locals are gone
TrainEnd ==
  /\ pc = "train"
  /\ batch_idx = Len(batches)
  /\ train_losses' =
       Append(train_losses, Quotient(train_loss, LoaderLen(Len(train_indices))))
  /\ train_loss' = "undefined"
  /\ data' = "undefined"
  /\ target' = "undefined"
  /\ loss' = "undefined"
  /\ batches' = <<>>
  /\ batch_idx' = 0
  /\ trace' = <<>>
  /\ train_exit' = StateDict(model)
  /\ prev_order' = IF epoch < num_epochs THEN Concat(batches) ELSE <<>>
  /\ pc' = "val_begin"
  /\ UNCHANGED << split_vars, epoch, model, grad, no_grad, output, val_loss,
                  correct, val_losses, best_loss, checkpoint, batch_losses,
                  hits, val_entry, epoch_states, clip_vars, stdout,
                  collate_vars, x_time, emitted, train_entry >>

\* val: model.eval(); val_loss = 0.0; with torch.no_grad(): correct = 0;
\* iter(val_loader) walks val_indices in order
ValBegin ==
  /\ pc = "val_begin"
  /\ model' = [model EXCEPT !.training = FALSE]
  /\ val_loss' = 0
  /\ no_grad' = TRUE
  /\ correct' = 0
  /\ batches' = IndexBatches(SequentialSamplerOrder(val_indices))
  /\ batch_idx' = 0
  /\ batch_losses' = <<>>
  /\ hits' = {}
  /\ val_entry' = [state |-> StateDict(model), grad |-> grad]
  /\ pc' = "val"
  /\ emitted' = <<>>
  /\ UNCHANGED << split_vars, epoch, grad, data, target, output, loss,
                  train_loss, train_losses, val_losses, best_loss,
                  checkpoint, trace, prev_order, train_entry, train_exit,
                  epoch_states, clip_vars, stdout, collate_vars, x_time >>

\* for data, target in val_loader: output = model(data)
ValForward ==
  /\ pc = "val"
  /\ batch_idx < Len(batches)
  /\ LET fetched == FetchBatch(batches[batch_idx + 1])
     IN  /\ data' = fetched[1]
         /\ target' = fetched[2]
         /\ LET forward == M5Forward(fetched[1].shape[1], fetched[1].shape[3])
            IN  /\ x_time' = forward
                /\ model' = AfterForward(model, forward)
                /\ IF forward.shape = <<>>
                   THEN /\ stdout' = [kind |-> "RuntimeError"]
                        /\ no_grad' = FALSE
                        /\ pc' = "raised"
                        /\ UNCHANGED output
                   ELSE /\ \E out \in ForwardOutputs(forward.shape[1]) : output' = out
                        /\ pc' = "v_loss"
                        /\ UNCHANGED << stdout, no_grad >>
  /\ emitted' = Append(emitted, batches[batch_idx + 1])
  /\ UNCHANGED << split_vars, epoch, grad, batches, batch_idx, loss,
                  train_loss, val_loss, correct, train_losses, val_losses,
                  best_loss, checkpoint, trace, batch_losses, hits,
                  prev_order, train_entry, train_exit, val_entry,
                  epoch_states, clip_vars, collate_vars >>

\* loss = criterion(output.squeeze(), target), without a graph under no_grad
ValLoss ==
  /\ pc = "v_loss"
  /\ IF CriterionAccepts(OutputShape(output), target)
     THEN /\ \E l \in ValLossValues :
               loss' = [value |-> l,
                        graph |-> IF no_grad THEN <<>> ELSE <<epoch, batch_idx>>]
          /\ pc' = "v_accum"
          /\ UNCHANGED << stdout, no_grad >>
     ELSE /\ stdout' = [kind |-> "RuntimeError"]
          /\ no_grad' = FALSE
          /\ pc' = "raised"
          /\ UNCHANGED loss
  /\ UNCHANGED << split_vars, epoch, model, grad, batches, batch_idx, data,
                  target, output, train_loss, val_loss, correct,
                  train_losses, val_losses, best_loss, checkpoint, trace,
                  batch_losses, hits, prev_order, emitted, train_entry,
                  train_exit, val_entry, epoch_states, clip_vars,
                  collate_vars, x_time >>

\* a val body that also calls optimizer.step()
ValAccumulateWithStep ==
  /\ pc = "v_accum"
  /\ val_loss' = val_loss + loss.value
  /\ LET pred == get_likely_index(output)
     IN  correct' = correct + number_of_correct(pred, target)
  /\ batch_losses' = Append(batch_losses, loss.value)
  /\ LET index_batch == batches[batch_idx + 1]
     IN  hits' = hits \cup
                 { index_batch[b] : b \in
                     { k \in 1..Len(index_batch) :
                         ArgMax(output[k][1]) = DatasetItem(index_batch[k])[2] } }
  /\ model' = OptimizerStep(model, grad)
  /\ output' = "undefined"
  /\ batch_idx' = batch_idx + 1
  /\ pc' = "val"
  /\ UNCHANGED << split_vars, epoch, grad, no_grad, batches, data, target,
                  loss, train_loss, train_losses, val_losses, best_loss,
                  checkpoint, trace, prev_order, emitted, train_entry,
                  train_exit, val_entry, epoch_states, clip_vars, stdout,
                  collate_vars, x_time >>

\* a val body that writes correct = number_of_correct(pred, target)
ValAccumulateOverwrite ==
  /\ pc = "v_accum"
  /\ val_loss' = val_loss + loss.value
  /\ LET pred == get_likely_index(output)
     IN  correct' = number_of_correct(pred, target)
  /\ batch_losses' = Append(batch_losses, loss.value)
  /\ LET index_batch == batches[batch_idx + 1]
     IN  hits' = hits \cup
                 { index_batch[b] : b \in
                     { k \in 1..Len(index_batch) :
                         ArgMax(output[k][1]) = DatasetItem(index_batch[k])[2] } }
  /\ output' = "undefined"
  /\ batch_idx' = batch_idx + 1
  /\ pc' = "val"
  /\ UNCHANGED << split_vars, epoch, model, grad, no_grad, batches, data,
                  target, loss, train_loss, train_losses, val_losses,
                  best_loss, checkpoint, trace, prev_order, emitted,
                  train_entry, train_exit, val_entry, epoch_states,
                  clip_vars, stdout, collate_vars, x_time >>

\* val_loss += loss.item(); pred = get_likely_index(output);
\* correct += number_of_correct(pred, target); output is not read again
ValAccumulate ==
  /\ pc = "v_accum"
  /\ val_loss' = val_loss + loss.value
  /\ LET pred == get_likely_index(output)
     IN  correct' = correct + number_of_correct(pred, target)
  /\ batch_losses' = Append(batch_losses, loss.value)
  /\ LET index_batch == batches[batch_idx + 1]
     IN  hits' = hits \cup
                 { index_batch[b] : b \in
                     { k \in 1..Len(index_batch) :
                         ArgMax(output[k][1]) = DatasetItem(index_batch[k])[2] } }
  /\ output' = "undefined"
  /\ batch_idx' = batch_idx + 1
  /\ pc' = "val"
  /\ UNCHANGED << split_vars, epoch, model, grad, no_grad, batches, data,
                  target, loss, train_loss, train_losses, val_losses,
                  best_loss, checkpoint, trace, prev_order, emitted,
                  train_entry, train_exit, val_entry, epoch_states,
                  clip_vars, stdout, collate_vars, x_time >>

\* val_loss = val_loss / len(train_loader); losses.append(val_loss);
\* print(Validation Epoch, Accuracy: correct/len(val_loader.dataset));
\* val returns and its locals are gone
ValEnd ==
  /\ pc = "val"
  /\ batch_idx = Len(batches)
  /\ val_losses' =
       Append(val_losses, Quotient(val_loss, LoaderLen(Len(train_indices))))
  /\ no_grad' = FALSE
  /\ stdout' = [kind |-> "Validation", epoch |-> epoch, correct |-> correct,
                total |-> Len(val_indices)]
  /\ val_loss' = "undefined"
  /\ correct' = "undefined"
  /\ data' = "undefined"
  /\ target' = "undefined"
  /\ loss' = "undefined"
  /\ batches' = <<>>
  /\ batch_idx' = 0
  /\ pc' = "save"
  /\ UNCHANGED << split_vars, epoch, model, grad, output, train_loss,
                  train_losses, best_loss, checkpoint, trace, batch_losses,
                  hits, prev_order, emitted, train_entry, train_exit,
                  val_entry, epoch_states, clip_vars, collate_vars, x_time >>

\* if val_losses[-1] < best_loss: best_loss = val_losses[-1];
\* torch.save(model.cpu().state_dict(), save_path); then the next epoch
SaveIfBetter ==
  /\ pc = "save"
  /\ IF RatLess(val_losses[Len(val_losses)], best_loss)
     THEN /\ best_loss' = val_losses[Len(val_losses)]
          /\ checkpoint' = SavedFile(StateDict(model))
     ELSE UNCHANGED << best_loss, checkpoint >>
  /\ epoch_states' = Append(epoch_states, StateDict(model))
  /\ batch_losses' = <<>>
  /\ hits' = {}
  /\ val_entry' = <<>>
  /\ train_exit' = <<>>
  /\ IF epoch < num_epochs
     THEN epoch' = epoch + 1 /\ pc' = "train_begin"
     ELSE epoch' = epoch /\ pc' = "idle"
  /\ emitted' = <<>>
  /\ UNCHANGED << split_vars, model, grad, no_grad, batches, batch_idx, data,
                  target, output, loss, train_loss, val_loss, correct,
                  train_losses, val_losses, trace, prev_order, clip_vars,
                  stdout, collate_vars, x_time, train_entry >>

(***************************************************************************)
(* The inference cells.  The cells run in notebook order and an exception  *)
(* ends the run; the clip cell and the inference cell are run again, in    *)
(* any order, to try the file then found at test_wav.                      *)
(***************************************************************************)
\* a load cell that leaves out model.load_state_dict(state_dict)
LoadCheckpointCellWithoutLoad ==
  /\ pc = "idle"
  /\ IF ~checkpoint.exists
     THEN /\ stdout' = [kind |-> "FileNotFoundError"]
          /\ pc' = "raised"
          /\ UNCHANGED << model, grad >>
     ELSE /\ model' = [NewM5 EXCEPT !.training = FALSE]
          /\ grad' = <<>>
          /\ stdout' = [kind |-> "M5"]
          /\ pc' = "cell_clip"
  /\ UNCHANGED << split_vars, epoch, no_grad, batches, batch_idx, data,
                  target, output, loss, train_loss, val_loss, correct,
                  train_losses, val_losses, best_loss, checkpoint, trace,
                  batch_losses, hits, prev_order, emitted, train_entry,
                  train_exit, val_entry, epoch_states, clip_vars,
                  collate_vars, x_time >>

\* state_dict = torch.load('./models/model.pt'); model = M5(...);
\* model.load_state_dict(state_dict); model.eval().  The new module's
\* parameters have no gradient: load_state_dict copies values only.
LoadCheckpointCell ==
  /\ pc = "idle"
  /\ IF ~checkpoint.exists
     THEN /\ stdout' = [kind |-> "FileNotFoundError"]
          /\ pc' = "raised"
          /\ UNCHANGED << model, grad >>
     ELSE /\ model' = [params |-> checkpoint.params, bn |-> checkpoint.bn,
                       training |-> FALSE]
          /\ grad' = <<>>
          /\ stdout' = [kind |-> "M5"]
          /\ pc' = "cell_clip"
  /\ UNCHANGED << split_vars, epoch, no_grad, batches, batch_idx, data,
                  target, output, loss, train_loss, val_loss, correct,
                  train_losses, val_losses, best_loss, checkpoint, trace,
                  batch_losses, hits, prev_order, emitted, train_entry,
                  train_exit, val_entry, epoch_states, clip_vars,
                  collate_vars, x_time >>

\* the clip cell on the file found at test_wav
ClipCellOn(file) ==
  IF ~file.exists
  THEN /\ stdout' = [kind |-> "Error: Audio file does not exist."]
       /\ UNCHANGED clip_vars
  ELSE LET loaded == [clip |-> file.clip, frames |-> file.frames]
       IN  /\ waveform' = loaded
           /\ sample_rate' = file.rate
           /\ IF TooShort(file.frames, file.rate)
              THEN /\ stdout' = [kind |-> "Error: Audio duration is too short."]
                   /\ UNCHANGED << transformed, input_data >>
              ELSE /\ transformed' = Resample(loaded, file.rate)
                   /\ input_data' = << Resample(loaded, file.rate) >>
                   /\ stdout' = [kind |-> ""]

\* the clip cell when test_wav names one of the given files
ClipCellFrom(files) ==
  /\ pc \in {"cell_clip", "cell_infer"}
  /\ \E file \in files : ClipCellOn(file)
  /\ pc' = "cell_infer"
  /\ UNCHANGED << split_vars, loop_vars, collate_vars, x_time >>

ClipCell == ClipCellFrom(TestFiles)

\* with torch.no_grad(): output = model(input_data);
\* pred = output.argmax(dim=-1); pred_label = dataset.classes[pred.item()];
\* print("Predicted label:", pred_label)
InferenceCell ==
  /\ pc = "cell_infer"
  /\ IF input_data = <<>>
     THEN /\ stdout' = [kind |-> "NameError"]
          /\ pc' = "raised"
          /\ UNCHANGED << output, model, x_time >>
     ELSE LET forward == M5Forward(Len(input_data), input_data[1].frames)
          IN  /\ x_time' = forward
              /\ IF forward.shape = <<>>
                 THEN /\ stdout' = [kind |-> "RuntimeError"]
                      /\ pc' = "raised"
                      /\ UNCHANGED << output, model >>
                 ELSE /\ \E out \in ForwardOutputs(forward.shape[1]) :
                           /\ output' = out
                           /\ stdout' = [kind |-> "Predicted label:",
                                         pred_label |-> classes[ArgMax(out[1][1]) + 1]]
                      /\ model' = AfterForward(model, forward)
                      /\ pc' = "cell_infer"
  /\ UNCHANGED << split_vars, epoch, grad, no_grad, batches, batch_idx, data,
                  target, loss, train_loss, val_loss, correct, train_losses,
                  val_losses, best_loss, checkpoint, trace, batch_losses, hits,
                  prev_order, emitted, train_entry, train_exit, val_entry,
                  epoch_states, clip_vars, collate_vars >>

(***************************************************************************)
(* A call of val on its own, on datasets of up to MaxValDatasetSize clips  *)
(* of a second or more, from the state in which train of the same epoch    *)
(* returns after batches drawn in the order of train_indices with a loss   *)
(* of 1 each (and, in later epochs, after validation batches with a loss   *)
(* of 1 each).                                                             *)
(***************************************************************************)
\* a loader over k samples ends with a batch of one sample, on which
\* criterion raises
EndsWithOneSample(k) == k % batch_size = 1

\* the state at the call val(model, epoch, val_losses) of epoch e
ValEntry(n, e) ==
  /\ pc = "val_begin"
  /\ dataset = DatasetItems("long", n)
  /\ dataset_size = n
  /\ \E split \in train_test_split([i \in 1..n |-> i - 1]) :
       /\ ~split.error
       /\ train_indices = split.train
       /\ val_indices = split.test
  /\ ~EndsWithOneSample(Len(train_indices))
  /\ e > 1 => ~EndsWithOneSample(Len(val_indices))
  /\ LET steps == LoaderLen(Len(train_indices))
         last == IndexBatches(train_indices)[steps]
     IN  /\ epoch = e
         /\ model = [params |-> e * steps, bn |-> e * steps, training |-> TRUE]
         /\ grad = << e, steps - 1 >>
         /\ train_losses = [k \in 1..e |-> Quotient(steps, steps)]
         /\ val_losses =
              [k \in 1..(e - 1) |-> Quotient(LoaderLen(Len(val_indices)), steps)]
         /\ best_loss = IF e = 1 THEN << initial_best_loss, 1 >>
                        ELSE Quotient(LoaderLen(Len(val_indices)), steps)
         /\ checkpoint = IF e = 1 THEN NoFile
                         ELSE SavedFile([params |-> steps, bn |-> steps])
         /\ epoch_states = [k \in 1..(e - 1) |-> [params |-> k * steps, bn |-> k * steps]]
         /\ stdout = [kind |-> "Train Epoch:", epoch |-> e, seen |-> 0,
                      total |-> Len(train_indices), batch_idx |-> 0,
                      batches |-> steps, loss |-> 1]
         /\ batch_losses = [k \in 1..steps |-> 1]
         /\ emitted = IndexBatches(train_indices)
         /\ prev_order = IF e < num_epochs THEN train_indices ELSE <<>>
         /\ train_entry = (e - 1) * steps
         /\ train_exit = [params |-> e * steps, bn |-> e * steps]
         /\ x_time = M5Forward(Len(last), FetchBatch(last)[1].shape[3])
  /\ no_grad = FALSE
  /\ batches = <<>>
  /\ batch_idx = 0
  /\ data = "undefined"
  /\ target = "undefined"
  /\ output = "undefined"
  /\ loss = "undefined"
  /\ train_loss = "undefined"
  /\ val_loss = "undefined"
  /\ correct = "undefined"
  /\ waveform = [clip |-> SampleClip.clip, frames |-> SampleClip.frames]
  /\ sample_rate = SampleClip.rate
  /\ transformed = Resample([clip |-> SampleClip.clip, frames |-> SampleClip.frames],
                            SampleClip.rate)
  /\ input_data = <<>>
  /\ split_runs = 0
  /\ first_split = <<>>
  /\ trace = <<>>
  /\ hits = {}
  /\ val_entry = <<>>
  /\ c_batch = <<>>
  /\ c_out = <<>>

InitVal == \E n \in 1..MaxValDatasetSize, e \in 1..num_epochs : ValEntry(n, e)

SpecVal ==
  InitVal /\ [][ValBegin \/ ValForward \/ ValLoss \/ ValAccumulate \/ ValEnd]_vars

(***************************************************************************)
(* The clip and inference cells on recorded clips of several sample rates  *)
(* and lengths, from the state the load cell leaves after a run on four    *)
(* dataset items.                                                          *)
(***************************************************************************)
InitRecorded ==
  /\ dataset = DatasetItems("long", 4)
  /\ dataset_size = 4
  /\ \E split \in train_test_split([i \in 1..4 |-> i - 1]) :
       train_indices = split.train /\ val_indices = split.test
  /\ pc = "cell_clip"
  /\ epoch = num_epochs
  /\ model = [params |-> 1, bn |-> 1, training |-> FALSE]
  /\ grad = <<>>
  /\ no_grad = FALSE
  /\ batches = <<>>
  /\ batch_idx = 0
  /\ data = "undefined"
  /\ target = "undefined"
  /\ output = "undefined"
  /\ loss = "undefined"
  /\ train_loss = "undefined"
  /\ val_loss = "undefined"
  /\ correct = "undefined"
  /\ train_losses = << <<1, 1>>, <<1, 1>> >>
  /\ val_losses = << <<1, 1>>, <<1, 1>> >>
  /\ best_loss = <<1, 1>>
  /\ checkpoint = SavedFile([params |-> 1, bn |-> 1])
  /\ waveform = [clip |-> SampleClip.clip, frames |-> SampleClip.frames]
  /\ sample_rate = SampleClip.rate
  /\ transformed = Resample([clip |-> SampleClip.clip, frames |-> SampleClip.frames],
                            SampleClip.rate)
  /\ input_data = <<>>
  /\ stdout = [kind |-> "M5"]
  /\ split_runs = 0
  /\ first_split = <<>>
  /\ trace = <<>>
  /\ batch_losses = <<>>
  /\ hits = {}
  /\ prev_order = <<>>
  /\ emitted = <<>>
  /\ train_entry = 1
  /\ train_exit = <<>>
  /\ val_entry = <<>>
  /\ epoch_states = << [params |-> 1, bn |-> 1], [params |-> 2, bn |-> 2] >>
  /\ c_batch = <<>>
  /\ c_out = <<>>
  /\ x_time = M5Forward(2, new_sample_rate + 1)

ClipCellRecorded == ClipCellFrom(RecordedFiles)

SpecRecorded == InitRecorded /\ [][ClipCellRecorded \/ InferenceCell]_vars

(***************************************************************************)
(* collate_fn on its own, on batches of mono waveforms.                    *)
(***************************************************************************)
\* waveforms of every length up to MaxLen: a ramp, and one that starts with
\* a zero sample
CollateWaveforms ==
  UNION { { << [j \in 1..len |-> j] >>, << [j \in 1..len |-> (j + 1) % 2] >> } :
          len \in 1..MaxLen }

CollateItems ==
  { <<wave, label>> : wave \in CollateWaveforms, label \in {0, NumClasses - 1} }

CollateBatches == UNION { [1..n -> CollateItems] : n \in 1..MaxBatch }

InitCollate ==
  /\ InitKernel(1)
  /\ dataset = DatasetItems("long", 1)
  /\ pc = "collate"
  /\ c_batch \in CollateBatches
  /\ c_out = <<>>
  /\ x_time = NoForward

CollateCall ==
  /\ pc = "collate"
  /\ c_out' = collate_fn(c_batch)
  /\ pc' = "collated"
  /\ UNCHANGED << split_vars, loop_vars, clip_vars, stdout, c_batch, x_time >>

SpecCollate == InitCollate /\ [][CollateCall]_vars

Next ==
  \/ SplitCell
  \/ InspectCell
  \/ ModelCell
  \/ TrainingLoopStart
  \/ TrainBegin
  \/ TrainForward
  \/ TrainLoss
  \/ TrainZeroGrad
  \/ TrainBackward
  \/ TrainStep
  \/ TrainAccumulate
  \/ TrainEnd
  \/ ValBegin
  \/ ValForward
  \/ ValLoss
  \/ ValAccumulate
  \/ ValEnd
  \/ SaveIfBetter
  \/ LoadCheckpointCell
  \/ ClipCell
  \/ InferenceCell

Spec == Init /\ [][Next]_vars

(***************************************************************************)
(* Properties.                                                             *)
(***************************************************************************)
IsPermutationOf(s, u) ==
  /\ Len(s) = Len(u)
  /\ \A x \in Range(s) \cup Range(u) :
       Cardinality({k \in 1..Len(s) : s[k] = x})
         = Cardinality({k \in 1..Len(u) : u[k] = x})

\* the frames of the k-th waveform handed to collate_fn
CollateInputFrames(k) == Len(c_batch[k][1][1])

\* C2: collate_fn of a non-empty batch returns one mono waveform per item, in
\* batch order, each as long as the longest waveform of the batch, with the
\* item's own samples unchanged at the start and zeros after them, and the
\* targets are the labels in batch order.
C2_CollatePadsWithZeros ==
  pc = "collated" =>
    LET tensors == c_out[1]
        targets == c_out[2]
        longest == CHOOSE l \in {CollateInputFrames(k) : k \in 1..Len(c_batch)} :
                     \A k \in 1..Len(c_batch) : CollateInputFrames(k) <= l
    IN  /\ Len(tensors) = Len(c_batch)
        /\ Len(targets) = Len(c_batch)
        /\ \A k \in 1..Len(c_batch) :
             /\ Len(tensors[k]) = 1
             /\ Len(tensors[k][1]) = longest
             /\ \A j \in 1..CollateInputFrames(k) :
                  tensors[k][1][j] = c_batch[k][1][1][j]
             /\ \A j \in (CollateInputFrames(k) + 1)..longest :
                  tensors[k][1][j] = 0
             /\ targets[k] = c_batch[k][2]

\* a batch of waveforms of differing lengths has been collated, its first
\* waveform the shorter one
C2_Witness ==
  /\ pc = "collated"
  /\ Len(c_batch) >= 2
  /\ CollateInputFrames(1) < CollateInputFrames(2)
  /\ c_batch[1][2] # c_batch[2][2]
  /\ Len(c_out[1][1][1]) = CollateInputFrames(2)

SplitHasRun == pc \notin {"cell_split", "split_error", "collate", "collated"}

\* C3: after the split cell, train_indices and val_indices are disjoint and
\* together hold every index 0..dataset_size-1 exactly once, and a further
\* run of the cell on the same dataset gives the same two lists.
C3_SplitIsDeterministicPartition ==
  SplitHasRun =>
    /\ Range(train_indices) \cap Range(val_indices) = {}
    /\ Range(train_indices) \cup Range(val_indices) = 0..(dataset_size - 1)
    /\ Len(train_indices) + Len(val_indices) = dataset_size
    /\ split_runs >= 1 => <<train_indices, val_indices>> = first_split

\* the split cell has run twice, with a batch drawn from the training loader
\* in between, on a dataset that gives both parts several indices, and the
\* lists are not in the order of the indices
C3_Witness ==
  /\ pc = "cell_model"
  /\ split_runs = 2
  /\ Len(train_indices) >= 2
  /\ Len(val_indices) >= 2
  /\ train_indices[1] > train_indices[2]
  /\ <<train_indices, val_indices>> = first_split

BatchSizesRight(bs) ==
  \A b \in 1..Len(bs) :
    IF b < Len(bs) THEN Len(bs[b]) = batch_size
    ELSE Len(bs[b]) >= 1 /\ Len(bs[b]) <= batch_size

\* C4: when train has consumed its loader, the batches emitted hold every
\* training index exactly once; when val has consumed its loader, the batches
\* emitted are val_indices in order (hence the same in every epoch); in both,
\* every batch but the last has batch_size samples and the last has from 1 to
\* batch_size.  While a loader is being consumed, what it has emitted is a
\* prefix of that.
C4_LoadersEmitEachIndexOnce ==
  /\ pc \in {"train", "t_loss", "t_zero_grad", "t_backward", "t_step", "t_accum"} =>
       /\ IsPermutationOf(Concat(batches), train_indices)
       /\ BatchSizesRight(batches)
       /\ emitted = SubSeq(batches, 1, Len(emitted))
  /\ pc = "val_begin" =>
       /\ IsPermutationOf(Concat(emitted), train_indices)
       /\ BatchSizesRight(emitted)
  /\ pc \in {"val", "v_loss", "v_accum"} =>
       /\ Concat(batches) = val_indices
       /\ BatchSizesRight(batches)
       /\ emitted = SubSeq(batches, 1, Len(emitted))
  /\ pc = "save" =>
       /\ Concat(emitted) = val_indices
       /\ BatchSizesRight(emitted)

\* the second epoch's training pass starts in an order other than the first
\* epoch's, on a dataset whose training loader has several batches and whose
\* validation loader has emitted a full batch in the first epoch
C4_Witness ==
  /\ pc = "train"
  /\ epoch = 2
  /\ batch_idx = 0
  /\ Len(batches) >= 2
  /\ Len(val_indices) >= batch_size
  /\ Len(val_losses) = 1
  /\ prev_order # <<>>
  /\ Concat(batches) # prev_order

TrainSteps == <<"forward", "loss", "zero_grad", "backward", "step">>

\* the steps of the batch at hand that have been taken when pc is reached
StepsTakenAt(p) ==
  CASE p = "t_loss" -> 1
    [] p = "t_zero_grad" -> 2
    [] p = "t_backward" -> 3
    [] p = "t_step" -> 4
    [] p = "t_accum" -> 5

\* C5: in train the steps on a batch are forward, loss, zero_grad, backward,
\* step in this order; the optimizer has stepped once for every batch consumed
\* before the next forward pass, with the gradient of that batch's loss; while
\* train runs nothing is appended to losses and when it returns exactly one
\* value has been, the sum of the epoch's batch losses over the number of
\* training batches.
C5_TrainStepsInOrder ==
  /\ pc \in {"t_loss", "t_zero_grad", "t_backward", "t_step", "t_accum"} =>
       /\ trace = SubSeq(TrainSteps, 1, StepsTakenAt(pc))
       /\ Len(train_losses) = epoch - 1
  /\ pc \in {"train", "t_loss", "t_zero_grad", "t_backward", "t_step"} =>
       /\ model.params = train_entry + batch_idx
       /\ Len(train_losses) = epoch - 1
  /\ pc = "t_accum" =>
       /\ model.params = train_entry + batch_idx + 1
       /\ grad = <<epoch, batch_idx>>
  /\ pc = "val_begin" =>
       /\ Len(train_losses) = epoch
       /\ Len(batch_losses) = LoaderLen(Len(train_indices))
       /\ Len(emitted) = Len(batch_losses)
       /\ RatEq(train_losses[epoch], <<SumSeq(batch_losses), Len(batch_losses)>>)
       /\ model.params = train_entry + Len(batch_losses)

\* train returns from the second epoch after several batches whose losses
\* differ
C5_Witness ==
  /\ pc = "val_begin"
  /\ epoch = 2
  /\ Len(batch_losses) >= 2
  /\ batch_losses[1] # batch_losses[2]
  /\ train_losses[2] = <<SumSeq(batch_losses), Len(batch_losses)>>
  /\ model.params = 2 * Len(batch_losses)

\* C6 (state part): from the entry of val to the save that follows it, the
\* model's parameters and buffers are those train returned with and no
\* gradient has been computed.
C6_ValLeavesModelAlone ==
  pc \in {"val", "v_loss", "v_accum", "save"} =>
    /\ StateDict(model) = val_entry.state
    /\ StateDict(model) = train_exit
    /\ grad = val_entry.grad

\* C6 (step part): a checkpoint written after val holds exactly what the
\* train call of that epoch produced.
C6_SaveWritesTrainResult ==
  (pc = "save" /\ checkpoint' # checkpoint) => checkpoint' = SavedFile(train_exit)

\* C6: the validation pass is forward-only: no optimizer step and no backward
\* pass between the start and the end of val, the model unchanged, and the
\* parameters checkpointed after val are those of the preceding train call.
C6_ValidationIsForwardOnly ==
  [] C6_ValLeavesModelAlone /\ [][C6_SaveWritesTrainResult]_vars

\* val has run over a batch of several samples in the second epoch and its
\* loss is about to be checkpointed
C6_Witness ==
  /\ pc = "save"
  /\ epoch = 2
  /\ Len(emitted) >= 1
  /\ Len(emitted[1]) >= 2
  /\ RatLess(val_losses[2], best_loss)
  /\ train_exit.params > 0
  /\ StateDict(model) = train_exit

\* C7: the count val reports is the number of validation samples whose
\* arg-max class is their label, over all batches of the pass; it starts each
\* pass at 0 and lies between 0 and len(val_loader.dataset), the total val
\* reports.
C7_AccuracyCountsHits ==
  /\ pc \in {"val", "v_loss", "v_accum"} =>
       /\ correct = Cardinality(hits)
       /\ correct >= 0 /\ correct <= Len(val_indices)
       /\ batch_idx = 0 => correct = 0
       /\ hits \subseteq Range(Concat(emitted))
  /\ pc = "save" =>
       /\ stdout.kind = "Validation"
       /\ stdout.correct = Cardinality(hits)
       /\ stdout.correct >= 0 /\ stdout.correct <= Len(val_indices)
       /\ stdout.total = Len(val_indices)
       /\ hits \subseteq Range(val_indices)

\* the second validation pass reports a count that is neither none nor all of
\* the samples of its several batches, some of them from the first batch and
\* some from the second
C7_Witness ==
  /\ pc = "save"
  /\ epoch = 2
  /\ Len(emitted) >= 2
  /\ stdout.correct >= 2
  /\ stdout.correct < Len(val_indices)
  /\ hits \cap Range(emitted[1]) # {}
  /\ hits \cap Range(emitted[2]) # {}

\* C8: a predicted label is dataset.classes[i] for the index i of the largest
\* score of the clip's output row, i is in 0..len(dataset.classes)-1, and the
\* model that produced the scores holds the state_dict of the checkpoint file,
\* which the training loop wrote at the end of one of its epochs.
C8_InferenceDecodesByArgMax ==
  stdout.kind = "Predicted label:" =>
    LET row == output[1][1]
        i == ArgMax(row)
    IN  /\ Len(output) = 1
        /\ Len(row) = Len(classes)
        /\ i \in 0..(Len(classes) - 1)
        /\ \A d \in 1..Len(row) : row[d] <= row[i + 1]
        /\ stdout.pred_label = classes[i + 1]
        /\ stdout.pred_label \in Range(classes)
        /\ checkpoint.exists
        /\ StateDict(model) = [params |-> checkpoint.params, bn |-> checkpoint.bn]
        /\ \E e \in 1..Len(epoch_states) : checkpoint = SavedFile(epoch_states[e])

\* the last class is predicted for an accepted clip by a model loaded from a
\* checkpoint of the first epoch, after training went on for another epoch
C8_Witness ==
  /\ stdout.kind = "Predicted label:"
  /\ stdout.pred_label = classes[NumClasses]
  /\ input_data[1].clip = "second16k"
  /\ Len(epoch_states) = num_epochs
  /\ checkpoint = SavedFile(epoch_states[1])
  /\ epoch_states[2] # epoch_states[1]
  /\ StateDict(model) = epoch_states[1]

\* the completed epoch with the lowest validation loss, the earliest on ties
BestEpoch(losses) ==
  CHOOSE e \in 1..Len(losses) :
    /\ \A k \in 1..Len(losses) : ~RatLess(losses[k], losses[e])
    /\ \A k \in 1..(e - 1) : RatLess(losses[e], losses[k])

\* C1: after every completed epoch the file at save_path holds the model as it
\* was at the end of the completed epoch with the lowest validation loss so
\* far (the earliest on ties), and best_loss is that loss.
C1_CheckpointIsBestEpoch ==
  (Len(epoch_states) >= 1 /\ Len(val_losses) = Len(epoch_states)) =>
    /\ checkpoint = SavedFile(epoch_states[BestEpoch(val_losses)])
    /\ RatEq(best_loss, val_losses[BestEpoch(val_losses)])

\* C9: the value val appends to losses is the sum of the pass's batch losses
\* over the number of validation batches.
C9_ValLossIsMeanOverValBatches ==
  pc = "save" =>
    /\ Len(batch_losses) = LoaderLen(Len(val_indices))
    /\ RatEq(val_losses[epoch],
             <<SumSeq(batch_losses), LoaderLen(Len(val_indices))>>)

\* C10: a clip cell that prints an error leaves transformed and input_data
\* without the rejected clip, and a printed predicted label is the prediction
\* for the clip most recently loaded from test_wav.
C10_LabelIsForLatestClip ==
  /\ stdout.kind = "Error: Audio duration is too short." =>
       /\ transformed.clip # waveform.clip
       /\ input_data # <<>> => input_data[1].clip # waveform.clip
  /\ stdout.kind = "Predicted label:" => input_data[1].clip = waveform.clip

\* C11: a clip the duration check let through has at least new_sample_rate
\* samples after resampling, and on it M5.forward raises nothing: the time
\* dimension is at least 1 after each of the eight layers, and the output is
\* one row of n_output scores for the clip.
C11_AcceptedClipsPassM5 ==
  /\ input_data # <<>> => input_data[1].frames >= new_sample_rate
  /\ stdout.kind # "RuntimeError"
  /\ Len(x_time.dims) = Len(M5Layers)
  /\ \A i \in 1..Len(x_time.dims) : x_time.dims[i] >= 1
  /\ stdout.kind = "Predicted label:" => x_time.shape = << 1, 1, NumClasses >>

\* inference has run on a clip of exactly one second recorded at another
\* rate than new_sample_rate, and pool4 left a time dimension of 1
C11_Witness ==
  /\ stdout.kind = "Predicted label:"
  /\ sample_rate # new_sample_rate
  /\ waveform.frames = sample_rate
  /\ input_data[1].frames = new_sample_rate
  /\ x_time.dims[Len(M5Layers)] = 1
  /\ Len(output) = 1 /\ Len(output[1]) = 1 /\ Len(output[1][1]) = NumClasses

====
